---- MODULE Spec2Model ----
(***************************************************************************)
(* Model of the mentor-matching endpoint of backend/server.py              *)
(* (get_mentor_matches, GET /api/ai/mentor-match): the user directory      *)
(* (db.users), one request through the handler, and the external ranking   *)
(* service (Gemini) whose answer the handler cleans, parses and resolves.  *)
(***************************************************************************)
EXTENDS Integers, Sequences, FiniteSets, TLC

(* ---------------------------------------------------------------------- *)
(* Bounds and program constants                                            *)
(* ---------------------------------------------------------------------- *)

\* longest mixed directory (users of any kind) drawn by Init
MaxUsers == 2

\* a wide directory holds one student and TopN .. TopN + MaxExtra mentors
MaxExtra == 1

\* ids the ranking service may name: 0 .. MaxAnswerId (0 is in no directory)
MaxAnswerId == 2

\* mentor_ids[:5] and sorted_mentors[:5]
TopN == 5

ScoreMajor == 100
ScoreIndustry == 50
ScoreLocation == 25

\* Python's None (an absent attribute)
None == "None"

(* ---------------------------------------------------------------------- *)
(* Sequence helpers                                                        *)
(* ---------------------------------------------------------------------- *)

\* s[:n]
Take(s, n) == SubSeq(s, 1, IF Len(s) < n THEN Len(s) ELSE n)

\* s[n:] (0-based n)
Drop(s, n) == IF n >= Len(s) THEN << >> ELSE SubSeq(s, n + 1, Len(s))

Range(s) == {s[i] : i \in 1..Len(s)}

\* all sequences over S of length 0 .. n
SeqsUpTo(S, n) == UNION {[1..k -> S] : k \in 0..n}

(* ---------------------------------------------------------------------- *)
(* The user directory (db.users)                                           *)
(* ---------------------------------------------------------------------- *)

\* the field values of a user document the handler reads, without its id
Kind(role, is_mentor, status, inst, major, industry, location) ==
    [role |-> role, is_mentor |-> is_mentor, status |-> status,
     institution_id |-> inst, major |-> major, industry |-> industry,
     location |-> location]

MentorA == Kind("Alumni", TRUE, "Verified", "inst1", "CS", "Tech", "NY")
MentorB == Kind("Alumni", TRUE, "Verified", "inst1", "CS", "Finance", "NY")
MentorC == Kind("Alumni", TRUE, "Verified", "inst1", "Art", None, None)
StudentFull == Kind("Student", FALSE, "Verified", "inst1", "CS", "Tech", "NY")
StudentBare == Kind("Student", FALSE, "Verified", "inst1", None, None, None)
MentorOther == Kind("Alumni", TRUE, "Verified", "inst2", "CS", "Tech", "NY")
MentorPending == Kind("Alumni", TRUE, "Pending", "inst1", "CS", "Tech", "NY")

UserKinds ==
    {MentorA, MentorB, MentorC, StudentFull, StudentBare, MentorOther,
     MentorPending}

\* a user document: the kind's fields plus the unique id (its position)
UserDoc(k, i) ==
    [id |-> i, role |-> k.role, is_mentor |-> k.is_mentor,
     status |-> k.status, institution_id |-> k.institution_id,
     major |-> k.major, industry |-> k.industry, location |-> k.location]

Directory(kinds) == [i \in 1..Len(kinds) |-> UserDoc(kinds[i], i)]

\* directories of up to MaxUsers users of any kind
MixedDirectories ==
    {Directory(ks) : ks \in SeqsUpTo(UserKinds, MaxUsers) \ {<< >>}}

StudentPending == Kind("Student", FALSE, "Pending", "inst1", "CS", "Tech", "NY")
AlumniPlain == Kind("Alumni", FALSE, "Verified", "inst1", "CS", "Tech", "NY")

\* a student, an eligible mentor and a user the pool query must leave out
ScopedDirectories ==
    {Directory(<<s, m, o>>) :
        s \in {StudentFull, StudentBare},
        m \in {MentorA, MentorC},
        o \in {MentorOther, MentorPending, AlumniPlain, StudentPending}}

\* one student followed by TopN .. TopN + MaxExtra eligible mentors
WideDirectories ==
    {Directory(<<s>> \o ms) :
        s \in {StudentFull, StudentBare},
        ms \in UNION {[1..n -> {MentorA, MentorC}] :
                        n \in TopN..(TopN + MaxExtra)}}

(* ---------------------------------------------------------------------- *)
(* The ranking service's answer (response.text) as a token sequence        *)
(* ---------------------------------------------------------------------- *)

Tok(t) == [t |-> t, v |-> 0]

\* a JSON string literal holding the id i
IdTok(i) == [t |-> "str", v |-> i]

\* the three-backquote fence marker
FENCE == Tok("fence")
JSONTAG == Tok("json")
LBRACKET == Tok("[")
RBRACKET == Tok("]")
OBJECT == Tok("{}")
PROSE == Tok("txt")

\* the text of a JSON array of id strings
ArrayText(ids) ==
    <<LBRACKET>> \o [i \in 1..Len(ids) |-> IdTok(ids[i])] \o <<RBRACKET>>

AnswerIds == 0..MaxAnswerId

\* arrays of TopN + 1 ids: k times a, then b
StepArrays ==
    {[i \in 1..(TopN + 1) |-> IF i <= k THEN a ELSE b] :
        a \in AnswerIds, b \in AnswerIds, k \in 1..(TopN + 1)}

\* the arrays the service may answer with
AnswerArrays ==
    SeqsUpTo(AnswerIds, 2) \cup StepArrays
        \cup {[i \in 1..(TopN + 1) |-> i]}

\* what the answer holds: an id array, a JSON object, prose, or nothing
Payloads ==
    {ArrayText(a) : a \in AnswerArrays} \cup {<<OBJECT>>, <<PROSE>>, << >>}

Bare(p) == p
JsonFenced(p) == <<FENCE, JSONTAG>> \o p \o <<FENCE>>
Fenced(p) == <<FENCE>> \o p \o <<FENCE>>

\* every text the service may return
Responses ==
    {Bare(p) : p \in Payloads} \cup {JsonFenced(p) : p \in Payloads}
        \cup {Fenced(p) : p \in Payloads}

SetMax(S) == CHOOSE x \in S : \A y \in S : y <= x
SetMin(S) == CHOOSE x \in S : \A y \in S : x <= y

\* text.split(fence + "json")[-1]
AfterLastJsonFence(text) ==
    LET occ == {i \in 1..(Len(text) - 1) :
                    text[i] = FENCE /\ text[i + 1] = JSONTAG}
    IN  IF occ = {} THEN text ELSE Drop(text, SetMax(occ) + 1)

\* text.split(tok)[0]
BeforeFirst(text, tok) ==
    LET occ == {i \in 1..Len(text) : text[i] = tok}
    IN  IF occ = {} THEN text ELSE Take(text, SetMin(occ) - 1)

\* clean_text of lines 791-795
CleanText(raw_text) ==
    LET clean_text == BeforeFirst(AfterLastJsonFence(raw_text), FENCE)
    IN  IF clean_text = << >>
        THEN BeforeFirst(raw_text, RBRACKET) \o <<RBRACKET>>
        ELSE clean_text

\* json.loads: a list of ids, another JSON value, or a JSONDecodeError
JsonLoads(text) ==
    IF /\ Len(text) >= 2
       /\ text[1] = LBRACKET
       /\ text[Len(text)] = RBRACKET
       /\ \A i \in 2..(Len(text) - 1) : text[i].t = "str"
    THEN [kind |-> "list",
          ids |-> [i \in 1..(Len(text) - 2) |-> text[i + 1].v]]
    ELSE IF text = <<OBJECT>>
    THEN [kind |-> "object", ids |-> << >>]
    ELSE IF Len(text) = 1 /\ text[1].t = "str"
    THEN [kind |-> "string", ids |-> << >>]
    ELSE [kind |-> "error", ids |-> << >>]

(* ---------------------------------------------------------------------- *)
(* State                                                                   *)
(* ---------------------------------------------------------------------- *)

VARIABLES
    users,          \* db.users in natural order
    pc,             \* position of the request: "idle", "ai_wait", "done"
    current_user,   \* id of the authenticated caller, 0 before the request
    mentors,        \* the candidate pool read at lines 749-754
    ai_calls,       \* number of generate_content_async calls issued
    response,       \* raw text the ranking service answered with
    ai_error,       \* exception caught at line 809: "none" or its kind
    mentor_ids,     \* value of json.loads(clean_text), kind "unset" before
    match_score,    \* mentor['match_score'] per pool position, << >> before
    result,         \* the HTTP response of the request
    pool_reads,     \* number of db.users.find pool queries issued
    prompt,         \* mentor_profiles sent to the ranking service
    fallback_error, \* an error was raised in lines 813-836
    reqs,           \* concurrent mentor-match requests: their local state
    institutions,   \* db.institutions in natural order
    posts,          \* db.posts in natural order
    jobs,           \* db.jobs in natural order
    reply,          \* the HTTP response of the last platform call
    mentorship_requests, \* db.mentorship_requests in natural order
    chats,          \* db.chats in natural order
    calls           \* platform calls in flight: what each has read so far

\* the local state of the single mentor-match request
matcher_vars ==
    <<pc, current_user, mentors, ai_calls, response, ai_error, mentor_ids,
      match_score, result, pool_reads, prompt, fallback_error>>

\* the collections and requests the single mentor-match request leaves alone
platform_vars == <<reqs, institutions, posts, jobs, reply, mentorship_requests,
                   chats, calls>>

\* the mentorship collections and the platform calls in flight
session_vars == <<mentorship_requests, chats, calls>>

\* no mentorship request, no chat and no platform call in flight
SessionIdle ==
    /\ mentorship_requests = << >>
    /\ chats = << >>
    /\ calls = << >>

vars == <<users, matcher_vars, platform_vars>>

NoReply ==
    [status |-> 0, op |-> "none", caller |-> 0, target |-> 0,
     institution |-> "none", detail |-> "none", liked |-> FALSE,
     likes_count |-> 0]

\* no platform call was made and no concurrent request exists
PlatformIdle ==
    /\ reqs = << >>
    /\ institutions = << >>
    /\ posts = << >>
    /\ jobs = << >>
    /\ reply = NoReply
    /\ SessionIdle

NoResult ==
    [status |-> 0, matches |-> << >>, ai_powered |-> FALSE,
     fallback |-> FALSE, message |-> "none"]

Unset == [kind |-> "unset", ids |-> << >>]

(* ---------------------------------------------------------------------- *)
(* get_mentor_matches                                                      *)
(* ---------------------------------------------------------------------- *)

\* a mutation of FindMentors: the institution_id condition is missing
FindMentorsAnyInstitution(docs, institution_id) ==
    LET Eligible(u) ==
            /\ u.role = "Alumni"
            /\ u.is_mentor = TRUE
            /\ u.status = "Verified"
    IN  SelectSeq(docs, Eligible)

\* db.users.find({role, is_mentor, status, institution_id}).to_list()
FindMentors(docs, institution_id) ==
    LET Eligible(u) ==
            /\ u.role = "Alumni"
            /\ u.is_mentor = TRUE
            /\ u.status = "Verified"
            /\ u.institution_id = institution_id
    IN  SelectSeq(docs, Eligible)

\* db.users.find_one({"id": mentor_id}): the found documents (none or one)
FindOneById(docs, mentor_id) ==
    LET hits == {i \in 1..Len(docs) : docs[i].id = mentor_id}
    IN  IF hits = {} THEN {} ELSE {docs[SetMin(hits)]}

\* the loop of lines 800-804 over the ids already cut to mentor_ids[:5]
RECURSIVE MatchedMentors(_, _)
MatchedMentors(docs, ids) ==
    IF ids = << >> THEN << >>
    ELSE LET found == FindOneById(docs, Head(ids))
             rest == MatchedMentors(docs, Tail(ids))
         IN  IF found = {} THEN rest
             ELSE <<(CHOOSE d \in found : TRUE).id>> \o rest

\* a mutation of FirstIds: the slice [:5] is missing
FirstIdsUncut(ids) == ids

\* mentor_ids[:5]
FirstIds(ids) == Take(ids, TopN)

\* a mutation of HasMatches: the AI result is never returned
HasMatchesNever(matched_mentors) == FALSE

\* a mutation of HasMatches: the AI result is returned even when empty
HasMatchesAlways(matched_mentors) == TRUE

\* line 806: if matched_mentors
HasMatches(matched_mentors) == matched_mentors # << >>

\* a mutation of NotVerified: the status check of line 745 is missing
NotVerifiedNever(user) == FALSE

\* line 745
NotVerified(user) == user.status # "Verified"

\* line 742
NotStudent(user) == user.role # "Student"

\* lines 769-777: the profiles sent to the ranking service
MentorProfiles(pool) ==
    [i \in 1..Len(pool) |->
        [id |-> pool[i].id, major |-> pool[i].major,
         industry |-> pool[i].industry, location |-> pool[i].location]]

\* a mutation of NoMentors: the empty-pool return is missing
NoMentorsNever(pool) == FALSE

\* line 756: if not mentors
NoMentors(pool) == pool = << >>

\* a mutation of Caught: only errors of the call itself are caught
CaughtCallErrorsOnly(err) == err = "call_error"

\* the inner handler "except Exception" catches every error kind
Caught(err) == err \in {"call_error", "json_error"}

\* lines 815-824
MatchScore(mentor, student) ==
    (IF mentor.major = student.major THEN ScoreMajor ELSE 0)
    + (IF mentor.industry = student.industry THEN ScoreIndustry ELSE 0)
    + (IF mentor.location = student.location THEN ScoreLocation ELSE 0)

\* a mutation of SortedDesc: equal keys come out in reverse order, as with
\* sorted(...)[::-1]
RECURSIVE SortedDescTiesReversed(_, _)
SortedDescTiesReversed(key, n) ==
    IF n = 0 THEN << >>
    ELSE LET prev == SortedDescTiesReversed(key, n - 1)
             notlarger == {j \in 1..Len(prev) : key[prev[j]] <= key[n]}
             pos == IF notlarger = {} THEN Len(prev) + 1
                    ELSE SetMin(notlarger)
         IN  Take(prev, pos - 1) \o <<n>> \o Drop(prev, pos - 1)

\* positions 1..n of key in the order sorted(..., reverse=True) gives them:
\* descending key, equal keys in their original order
RECURSIVE SortedDesc(_, _)
SortedDesc(key, n) ==
    IF n = 0 THEN << >>
    ELSE LET prev == SortedDesc(key, n - 1)
             smaller == {j \in 1..Len(prev) : key[prev[j]] < key[n]}
             pos == IF smaller = {} THEN Len(prev) + 1 ELSE SetMin(smaller)
         IN  Take(prev, pos - 1) \o <<n>> \o Drop(prev, pos - 1)

\* a mutation of TopMentors: the slice [:5] is missing
TopMentorsUncut(sorted) == sorted

\* sorted_mentors[:5]
TopMentors(sorted) == Take(sorted, TopN)

\* lines 813-836: the scores and the fallback response
FallbackScores(pool, student) ==
    [i \in 1..Len(pool) |-> MatchScore(pool[i], student)]

FallbackResult(pool, scores) ==
    LET sorted_mentors == SortedDesc(scores, Len(pool))
        top == TopMentors(sorted_mentors)
    IN  [status |-> 200,
         matches |-> [i \in 1..Len(top) |-> pool[top[i]].id],
         ai_powered |-> FALSE, fallback |-> TRUE,
         message |-> "algorithm"]

\* a mutation of OuterExcept: the error is swallowed and whatever was built
\* is returned
OuterExceptMasks(partial) ==
    [status |-> 200, matches |-> partial, ai_powered |-> FALSE,
     fallback |-> TRUE, message |-> "algorithm"]

\* lines 838-840: any error of the outer try becomes HTTP 500
OuterExcept(partial) ==
    [NoResult EXCEPT !.status = 500, !.message = "unavailable"]

\* no mentor-match request was made
MatcherIdle ==
    /\ pc = "idle"
    /\ current_user = 0
    /\ mentors = << >>
    /\ ai_calls = 0
    /\ response = << >>
    /\ ai_error = "none"
    /\ mentor_ids = Unset
    /\ match_score = << >>
    /\ result = NoResult
    /\ pool_reads = 0
    /\ prompt = << >>
    /\ fallback_error = FALSE

Init ==
    /\ users \in MixedDirectories \cup WideDirectories \cup ScopedDirectories
    /\ MatcherIdle
    /\ PlatformIdle

\* lines 739-789: the role and status checks, the pool query, the empty-pool
\* return, and the call of the ranking service
Request(caller) ==
    /\ pc = "idle"
    /\ caller \in 1..Len(users)
    /\ current_user' = caller
    /\ LET user == users[caller]
           pool == FindMentors(users, user.institution_id)
       IN  IF NotStudent(user)
           THEN /\ result' = [NoResult EXCEPT !.status = 403,
                                              !.message = "students_only"]
                /\ pc' = "done"
                /\ UNCHANGED <<mentors, ai_calls, pool_reads, prompt>>
           ELSE IF NotVerified(user)
           THEN /\ result' = [NoResult EXCEPT !.status = 403,
                                              !.message = "not_verified"]
                /\ pc' = "done"
                /\ UNCHANGED <<mentors, ai_calls, pool_reads, prompt>>
           ELSE IF NoMentors(pool)
           THEN /\ mentors' = pool
                /\ pool_reads' = pool_reads + 1
                /\ result' = [NoResult EXCEPT !.status = 200,
                                              !.message = "no_mentors"]
                /\ pc' = "done"
                /\ UNCHANGED <<ai_calls, prompt>>
           ELSE /\ mentors' = pool
                /\ pool_reads' = pool_reads + 1
                /\ prompt' = MentorProfiles(pool)
                /\ ai_calls' = ai_calls + 1
                /\ pc' = "ai_wait"
                /\ UNCHANGED result
    /\ UNCHANGED <<users, response, ai_error, mentor_ids, match_score,
                   fallback_error, platform_vars>>

\* what the handler does once the AI path is over without a return:
\* an uncaught error reaches line 838, anything else runs lines 813-836
AfterAIPath(err) ==
    IF err # "none" /\ ~Caught(err)
    THEN /\ result' = [NoResult EXCEPT !.status = 500,
                                       !.message = "unavailable"]
         /\ UNCHANGED match_score
    ELSE /\ match_score' = FallbackScores(mentors, users[current_user])
         /\ result' = FallbackResult(mentors, match_score')

\* the points of lines 813-836 at which an error is modelled: while the
\* first candidate is scored (0 scores stored) or after all are scored,
\* while the result is sorted and built
FaultPoints(pool) == {0, Len(pool)}

\* lines 813-840 when the AI path is over without a return and the
\* deterministic path raises after scored candidates were scored
AfterAIPathFault(err, scored) ==
    IF err # "none" /\ ~Caught(err)
    THEN /\ result' = [NoResult EXCEPT !.status = 500,
                                       !.message = "unavailable"]
         /\ UNCHANGED <<match_score, fallback_error>>
    ELSE /\ match_score' =
                Take(FallbackScores(mentors, users[current_user]), scored)
         /\ fallback_error' = TRUE
         /\ result' = OuterExcept(<< >>)

\* lines 789-836 when the ranking service answers with raw_text
AIResponse(raw_text) ==
    /\ pc = "ai_wait"
    /\ response' = raw_text
    /\ LET parsed == JsonLoads(CleanText(raw_text))
           err == IF parsed.kind = "error" THEN "json_error" ELSE "none"
           matched_mentors ==
               IF parsed.kind = "list"
               THEN MatchedMentors(users, FirstIds(parsed.ids))
               ELSE << >>
       IN  /\ ai_error' = err
           /\ mentor_ids' = IF parsed.kind = "error" THEN Unset ELSE parsed
           /\ IF HasMatches(matched_mentors)
              THEN /\ result' = [NoResult EXCEPT !.status = 200,
                                                 !.matches = matched_mentors,
                                                 !.ai_powered = TRUE]
                   /\ UNCHANGED match_score
              ELSE AfterAIPath(err)
    /\ pc' = "done"
    /\ UNCHANGED <<users, current_user, mentors, ai_calls, pool_reads,
                   prompt, fallback_error, platform_vars>>

\* lines 789-840 when the ranking service answers with raw_text, the AI
\* path returns nothing and the deterministic path raises
AIResponseFault(raw_text, scored) ==
    /\ pc = "ai_wait"
    /\ scored \in FaultPoints(mentors)
    /\ response' = raw_text
    /\ LET parsed == JsonLoads(CleanText(raw_text))
           err == IF parsed.kind = "error" THEN "json_error" ELSE "none"
           matched_mentors ==
               IF parsed.kind = "list"
               THEN MatchedMentors(users, FirstIds(parsed.ids))
               ELSE << >>
       IN  /\ ~HasMatches(matched_mentors)
           /\ ai_error' = err
           /\ mentor_ids' = IF parsed.kind = "error" THEN Unset ELSE parsed
           /\ AfterAIPathFault(err, scored)
    /\ pc' = "done"
    /\ UNCHANGED <<users, current_user, mentors, ai_calls, pool_reads,
                   prompt, platform_vars>>

\* lines 789 and 809-836 when the call of the ranking service raises
AIRaises ==
    /\ pc = "ai_wait"
    /\ ai_error' = "call_error"
    /\ AfterAIPath("call_error")
    /\ pc' = "done"
    /\ UNCHANGED <<users, current_user, mentors, ai_calls, response,
                   mentor_ids, pool_reads, prompt, fallback_error,
                   platform_vars>>

\* lines 789 and 809-840 when the call raises and the deterministic path
\* raises too
AIRaisesFault(scored) ==
    /\ pc = "ai_wait"
    /\ scored \in FaultPoints(mentors)
    /\ ai_error' = "call_error"
    /\ AfterAIPathFault("call_error", scored)
    /\ pc' = "done"
    /\ UNCHANGED <<users, current_user, mentors, ai_calls, response,
                   mentor_ids, pool_reads, prompt, platform_vars>>

Next ==
    \/ \E caller \in DOMAIN users : Request(caller)
    \/ \E raw_text \in Responses : AIResponse(raw_text)
    \/ AIRaises
    \/ \E raw_text \in Responses, scored \in 0..(TopN + MaxExtra) :
           AIResponseFault(raw_text, scored)
    \/ \E scored \in 0..(TopN + MaxExtra) : AIRaisesFault(scored)

Spec == Init /\ [][Next]_vars

\* the handler's own steps are taken once the service has answered or
\* raised; nothing obliges the service to do either
HandlerStep == \E caller \in DOMAIN users : Request(caller)

LiveSpec == Spec /\ WF_vars(HandlerStep)

(* ---------------------------------------------------------------------- *)
(* Concurrent mentor-match requests over one directory                     *)
(* ---------------------------------------------------------------------- *)

\* number of requests in flight together
NReq == 2

\* eligible mentors in a directory shared by the concurrent requests
MaxConcMentors == 2

StudentOther == Kind("Student", FALSE, "Verified", "inst2", "CS", "Tech", "NY")

\* two students, of one or of two institutions, and mentors of both
ConcDirectories ==
    {Directory(<<StudentFull, s>> \o ms) :
        s \in {StudentBare, StudentOther},
        ms \in [1..MaxConcMentors -> {MentorA, MentorC, MentorOther}]}

\* the answers the service gives in the concurrent runs
ConcResponses ==
    {Bare(ArrayText(a)) : a \in SeqsUpTo(AnswerIds, 1)} \cup {<<PROSE>>}

\* the local variables of one coroutine of get_mentor_matches; overlapped
\* records that another request was waiting when this one returned
LocalIdle ==
    [pc |-> "idle", current_user |-> 0, mentors |-> << >>,
     response |-> << >>, ai_error |-> "none", mentor_ids |-> Unset,
     match_score |-> << >>, result |-> NoResult, overlapped |-> FALSE]

\* lines 739-789 on the locals of one request
Started(docs, caller) ==
    LET user == docs[caller]
        pool == FindMentors(docs, user.institution_id)
        local == [LocalIdle EXCEPT !.current_user = caller]
    IN  IF NotStudent(user)
        THEN [local EXCEPT !.pc = "done",
                           !.result = [NoResult EXCEPT
                                          !.status = 403,
                                          !.message = "students_only"]]
        ELSE IF NotVerified(user)
        THEN [local EXCEPT !.pc = "done",
                           !.result = [NoResult EXCEPT
                                          !.status = 403,
                                          !.message = "not_verified"]]
        ELSE IF NoMentors(pool)
        THEN [local EXCEPT !.pc = "done", !.mentors = pool,
                           !.result = [NoResult EXCEPT
                                          !.status = 200,
                                          !.message = "no_mentors"]]
        ELSE [local EXCEPT !.pc = "ai_wait", !.mentors = pool]

\* lines 809-840 on the locals of one request, pool being the list that
\* lines 814-829 iterate
FellBack(docs, local, pool, err) ==
    IF err # "none" /\ ~Caught(err)
    THEN [local EXCEPT !.pc = "done", !.ai_error = err,
                       !.result = OuterExcept(<< >>)]
    ELSE LET scores == FallbackScores(pool, docs[local.current_user])
         IN  [local EXCEPT !.pc = "done", !.ai_error = err,
                           !.match_score = scores,
                           !.result = FallbackResult(pool, scores)]

\* lines 789-836 on the locals of one request when the service answers
Answered(docs, local, pool, raw_text) ==
    LET parsed == JsonLoads(CleanText(raw_text))
        err == IF parsed.kind = "error" THEN "json_error" ELSE "none"
        matched_mentors ==
            IF parsed.kind = "list"
            THEN MatchedMentors(docs, FirstIds(parsed.ids))
            ELSE << >>
        heard == [local EXCEPT
                     !.response = raw_text,
                     !.mentor_ids =
                         IF parsed.kind = "error" THEN Unset ELSE parsed]
    IN  IF HasMatches(matched_mentors)
        THEN [heard EXCEPT !.pc = "done",
                           !.result = [NoResult EXCEPT
                                          !.status = 200,
                                          !.matches = matched_mentors,
                                          !.ai_powered = TRUE]]
        ELSE FellBack(docs, heard, pool, err)

\* a mutation of ScoredPool: the pool is kept in one module-level list
\* that the request which read last overwrote
ScoredPoolShared(rs, r) ==
    LET readers == {q \in DOMAIN rs : rs[q].mentors # << >>}
    IN  IF readers = {} THEN << >> ELSE rs[SetMax(readers)].mentors

\* line 814: the list the fallback iterates is the request's own mentors
ScoredPool(rs, r) == rs[r].mentors

\* another request is suspended at the await of line 789
OthersWaiting(rs, r) == \E q \in DOMAIN rs : q # r /\ rs[q].pc = "ai_wait"

ConcInit ==
    /\ users \in ConcDirectories
    /\ MatcherIdle
    /\ SessionIdle
    /\ reqs = [r \in 1..NReq |-> LocalIdle]
    /\ institutions = << >>
    /\ posts = << >>
    /\ jobs = << >>
    /\ reply = NoReply

ConcRequest(r, caller) ==
    /\ reqs[r].pc = "idle"
    /\ caller \in DOMAIN users
    /\ reqs' = [reqs EXCEPT ![r] = Started(users, caller)]
    /\ UNCHANGED <<users, matcher_vars, session_vars, institutions, posts,
                   jobs, reply>>

ConcAIResponse(r, raw_text) ==
    /\ reqs[r].pc = "ai_wait"
    /\ reqs' = [reqs EXCEPT ![r] =
                   [Answered(users, reqs[r], ScoredPool(reqs, r), raw_text)
                       EXCEPT !.overlapped = OthersWaiting(reqs, r)]]
    /\ UNCHANGED <<users, matcher_vars, session_vars, institutions, posts,
                   jobs, reply>>

ConcAIRaises(r) ==
    /\ reqs[r].pc = "ai_wait"
    /\ reqs' = [reqs EXCEPT ![r] =
                   [FellBack(users, reqs[r], ScoredPool(reqs, r),
                             "call_error")
                       EXCEPT !.overlapped = OthersWaiting(reqs, r)]]
    /\ UNCHANGED <<users, matcher_vars, session_vars, institutions, posts,
                   jobs, reply>>

ConcNext ==
    \/ \E r \in DOMAIN reqs, caller \in DOMAIN users : ConcRequest(r, caller)
    \/ \E r \in DOMAIN reqs, raw_text \in ConcResponses :
           ConcAIResponse(r, raw_text)
    \/ \E r \in DOMAIN reqs : ConcAIRaises(r)

ConcSpec == ConcInit /\ [][ConcNext]_vars

(* ---------------------------------------------------------------------- *)
(* Platform calls: accounts that exist when jobs and posts are written     *)
(* ---------------------------------------------------------------------- *)

\* longest directory drawn for the job and post calls
MaxPlatformUsers == 2

\* most jobs created in one behaviour
MaxJobs == 2

\* the role, status and institution of an account
Account(role, status, inst) ==
    [role |-> role, status |-> status, institution_id |-> inst]

\* accounts the platform can hold: registered and verified or still
\* pending, institution admins before and after approval, the platform
\* admin, and an alumnus registered without an institution
PlatformKinds ==
    {Account("Student", "Verified", "inst1"),
     Account("Alumni", "Verified", "inst1"),
     Account("Alumni", "Pending", "inst1"),
     Account("Institution_Admin", "Verified", "inst1"),
     Account("Institution_Admin", "Pending", "inst1"),
     Account("Platform_Admin", "Verified", None),
     Account("Alumni", "Verified", None)}

\* a user document of the platform calls; its email is as unique as its id
PlatformDoc(k, i) ==
    [id |-> i, email |-> i, role |-> k.role, status |-> k.status,
     institution_id |-> k.institution_id, is_mentor |-> FALSE]

PlatformDirectories ==
    {[i \in 1..Len(ks) |-> PlatformDoc(ks[i], i)] :
        ks \in SeqsUpTo(PlatformKinds, MaxPlatformUsers) \ {<< >>}}

\* the response of a platform call
Reply(status, op, caller, target, detail) ==
    [NoReply EXCEPT !.status = status, !.op = op, !.caller = caller,
                    !.target = target, !.detail = detail]

(* ---------------------------------------------------------------------- *)
(* create_job                                                              *)
(* ---------------------------------------------------------------------- *)

\* line 674: the roles that may post a job
MayPostJob(user) ==
    user.role \in {"Alumni", "Institution_Admin", "Platform_Admin"}

\* Job(posted_by=..., institution_id=...): institution_id is a required str
JobValidates(user) == user.institution_id # None

JobInit ==
    /\ users \in PlatformDirectories
    /\ MatcherIdle
    /\ SessionIdle
    /\ reqs = << >>
    /\ institutions = << >>
    /\ posts = << >>
    /\ jobs = << >>
    /\ reply = NoReply

\* lines 670-689
CreateJob(caller) ==
    /\ caller \in DOMAIN users
    /\ Len(jobs) < MaxJobs
    /\ LET user == users[caller]
       IN  IF ~MayPostJob(user)
           THEN /\ reply' = Reply(403, "create_job", caller, 0, "alumni_only")
                /\ UNCHANGED jobs
           ELSE IF user.status # "Verified"
           THEN /\ reply' = Reply(403, "create_job", caller, 0,
                                  "not_verified")
                /\ UNCHANGED jobs
           ELSE IF ~JobValidates(user)
           THEN /\ reply' = Reply(500, "create_job", caller, 0,
                                  "validation_error")
                /\ UNCHANGED jobs
           ELSE /\ jobs' = Append(jobs,
                                  [id |-> Len(jobs) + 1,
                                   posted_by |-> user.id,
                                   institution_id |-> user.institution_id])
                /\ reply' = Reply(200, "create_job", caller,
                                  Len(jobs) + 1, "created")
    /\ UNCHANGED <<users, matcher_vars, session_vars, reqs, institutions,
                   posts>>

JobNext == \E caller \in DOMAIN users : CreateJob(caller)

JobSpec == JobInit /\ [][JobNext]_vars

(* ---------------------------------------------------------------------- *)
(* Institutions: registration, approval and rejection                      *)
(* ---------------------------------------------------------------------- *)

\* most institutions registered in one behaviour
MaxInstitutions == 2

\* number of distinct email addresses the calls are made with
NEmails == 3

\* number of distinct institution names
NNames == 2

Emails == 1..NEmails

Names == 1..NNames

\* the ids given to institutions, in order of registration
InstIds == <<"inst1", "inst2", "inst3", "inst4">>

\* the first of the positions whose documents pass a filter, 0 if none:
\* the document find_one returns and update_one changes
FirstMatch(matching) ==
    IF matching = {} THEN 0 ELSE SetMin(matching)

\* get_current_user: the first user with the token's email, 0 if none
CurrentUser(email) ==
    FirstMatch({i \in 1..Len(users) : users[i].email = email})

\* a new user document
NewUser(email, role, status, inst) ==
    [id |-> Len(users) + 1, email |-> email, role |-> role,
     status |-> status, institution_id |-> inst, industry |-> None,
     is_mentor |-> FALSE]

\* the response of an institution call; detail carries the status the
\* institution had when the call arrived
InstReply(status, op, caller, inst, detail) ==
    [NoReply EXCEPT !.status = status, !.op = op, !.caller = caller,
                    !.institution = inst, !.detail = detail]

\* the users filter of approve_institution, without its institution_id
AdminFilterAnyInstitution(u, institution_id) ==
    u.role = "Institution_Admin"

\* lines 455-458: the users filter of approve_institution
AdminFilter(u, institution_id) ==
    /\ u.institution_id = institution_id
    /\ u.role = "Institution_Admin"

InstInit ==
    /\ users = << >>
    /\ MatcherIdle
    /\ SessionIdle
    /\ reqs = << >>
    /\ institutions = << >>
    /\ posts = << >>
    /\ jobs = << >>
    /\ reply = NoReply

\* lines 967-1001
CreatePlatformAdmin(email) ==
    /\ IF \E i \in 1..Len(users) : users[i].role = "Platform_Admin"
       THEN /\ reply' = InstReply(400, "create_platform_admin", 0, "none",
                                  "exists")
            /\ UNCHANGED users
       ELSE /\ users' = Append(users, NewUser(email, "Platform_Admin",
                                               "Verified", None))
            /\ reply' = InstReply(200, "create_platform_admin", 0, "none",
                                  "created")
    /\ UNCHANGED <<matcher_vars, session_vars, reqs, institutions, posts, jobs>>

\* lines 375-418
RegisterInstitution(name, admin_email) ==
    /\ Len(institutions) < MaxInstitutions
    /\ IF \E i \in 1..Len(institutions) : institutions[i].name = name
       THEN /\ reply' = InstReply(400, "register_institution", 0, "none",
                                  "name_taken")
            /\ UNCHANGED <<users, institutions>>
       ELSE IF CurrentUser(admin_email) # 0
       THEN /\ reply' = InstReply(400, "register_institution", 0, "none",
                                  "email_taken")
            /\ UNCHANGED <<users, institutions>>
       ELSE LET id == InstIds[Len(institutions) + 1]
            IN  /\ institutions' =
                       Append(institutions,
                              [id |-> id, name |-> name,
                               status |-> "Pending",
                               institution_admin_id |-> Len(users) + 1])
                /\ users' = Append(users,
                                   NewUser(admin_email, "Institution_Admin",
                                           "Pending", id))
                /\ reply' = InstReply(200, "register_institution", 0, id,
                                      "Pending")
    /\ UNCHANGED <<matcher_vars, session_vars, reqs, posts, jobs>>

\* lines 444-460
ApproveInstitution(token_email, institution_id) ==
    /\ LET caller == CurrentUser(token_email)
           k == FirstMatch({i \in 1..Len(institutions) :
                               institutions[i].id = institution_id})
       IN  IF caller = 0
           THEN /\ reply' = InstReply(401, "approve_institution", 0,
                                      institution_id, "no_user")
                /\ UNCHANGED <<users, institutions>>
           ELSE IF users[caller].role # "Platform_Admin"
           THEN /\ reply' = InstReply(403, "approve_institution", caller,
                                      institution_id, "forbidden")
                /\ UNCHANGED <<users, institutions>>
           ELSE IF k = 0 \/ institutions[k].status = "Approved"
           THEN /\ reply' = InstReply(404, "approve_institution", caller,
                                      institution_id, "not_modified")
                /\ UNCHANGED <<users, institutions>>
           ELSE LET a == FirstMatch({i \in 1..Len(users) :
                                        AdminFilter(users[i],
                                                    institution_id)})
                IN  /\ institutions' =
                           [institutions EXCEPT ![k].status = "Approved"]
                    /\ users' = IF a = 0 THEN users
                                ELSE [users EXCEPT ![a].status = "Verified"]
                    /\ reply' = InstReply(200, "approve_institution", caller,
                                          institution_id,
                                          institutions[k].status)
    /\ UNCHANGED <<matcher_vars, session_vars, reqs, posts, jobs>>

\* lines 462-473
RejectInstitution(token_email, institution_id) ==
    /\ LET caller == CurrentUser(token_email)
           k == FirstMatch({i \in 1..Len(institutions) :
                               institutions[i].id = institution_id})
       IN  IF caller = 0
           THEN /\ reply' = InstReply(401, "reject_institution", 0,
                                      institution_id, "no_user")
                /\ UNCHANGED institutions
           ELSE IF users[caller].role # "Platform_Admin"
           THEN /\ reply' = InstReply(403, "reject_institution", caller,
                                      institution_id, "forbidden")
                /\ UNCHANGED institutions
           ELSE IF k = 0 \/ institutions[k].status = "Rejected"
           THEN /\ reply' = InstReply(404, "reject_institution", caller,
                                      institution_id, "not_modified")
                /\ UNCHANGED institutions
           ELSE /\ institutions' =
                       [institutions EXCEPT ![k].status = "Rejected"]
                /\ reply' = InstReply(200, "reject_institution", caller,
                                      institution_id, institutions[k].status)
    /\ UNCHANGED <<users, matcher_vars, session_vars, reqs, posts, jobs>>

InstNext ==
    \/ \E email \in Emails : CreatePlatformAdmin(email)
    \/ \E name \in Names, email \in Emails : RegisterInstitution(name, email)
    \/ \E email \in Emails, i \in 1..MaxInstitutions :
           ApproveInstitution(email, InstIds[i])
    \/ \E email \in Emails, i \in 1..MaxInstitutions :
           RejectInstitution(email, InstIds[i])

InstSpec == InstInit /\ [][InstNext]_vars

(* ---------------------------------------------------------------------- *)
(* Posts: create_post and like_post                                        *)
(* ---------------------------------------------------------------------- *)

\* most posts created in one behaviour
MaxPosts == 2

\* a post id as it arrives in the path: the id proper, and whether it is
\* wrapped in whitespace or markup that sanitize_input removes
PostId(n, padded) == [n |-> n, padded |-> padded]

PostIds == {PostId(n, padded) : n \in 1..MaxPosts, padded \in BOOLEAN}

\* lines 77-83 on a post id: markup removed, surrounding blanks stripped
sanitize_input(post_id) == [post_id EXCEPT !.padded = FALSE]

\* likes.remove(id): the list without the first occurrence of the id
Remove(likes, id) ==
    LET k == SetMin({i \in 1..Len(likes) : likes[i] = id})
    IN  Take(likes, k - 1) \o Drop(likes, k)

\* lines 628-632: the likes list after the caller's toggle
Toggled(likes, id) ==
    IF id \in Range(likes) THEN Remove(likes, id) ELSE Append(likes, id)

\* Post(author_id=..., institution_id=...): institution_id is a required str
PostValidates(user) == user.institution_id # None

\* the response of like_post
LikeReply(caller, target, likes, id) ==
    [NoReply EXCEPT !.status = 200, !.op = "like_post", !.caller = caller,
                    !.target = target, !.detail = "toggled",
                    !.liked = (id \in Range(likes)),
                    !.likes_count = Len(likes)]

LikeInit ==
    /\ users \in PlatformDirectories
    /\ MatcherIdle
    /\ SessionIdle
    /\ reqs = << >>
    /\ institutions = << >>
    /\ posts = << >>
    /\ jobs = << >>
    /\ reply = NoReply

\* lines 603-619
CreatePost(caller) ==
    /\ caller \in DOMAIN users
    /\ Len(posts) < MaxPosts
    /\ LET user == users[caller]
       IN  IF user.status # "Verified"
           THEN /\ reply' = Reply(403, "create_post", caller, 0,
                                  "not_verified")
                /\ UNCHANGED posts
           ELSE IF ~PostValidates(user)
           THEN /\ reply' = Reply(500, "create_post", caller, 0,
                                  "validation_error")
                /\ UNCHANGED posts
           ELSE /\ posts' = Append(posts,
                                   [id |-> PostId(Len(posts) + 1, FALSE),
                                    author_id |-> user.id,
                                    likes |-> << >>])
                /\ reply' = Reply(200, "create_post", caller,
                                  Len(posts) + 1, "created")
    /\ UNCHANGED <<users, matcher_vars, session_vars, reqs, institutions, jobs>>

\* lines 621-636
LikePost(caller, post_id) ==
    /\ caller \in DOMAIN users
    /\ LET found == FirstMatch({i \in 1..Len(posts) :
                                   posts[i].id = sanitize_input(post_id)})
           updated == FirstMatch({i \in 1..Len(posts) :
                                     posts[i].id = post_id})
       IN  IF found = 0
           THEN /\ reply' = Reply(404, "like_post", caller, 0, "not_found")
                /\ UNCHANGED posts
           ELSE LET likes == Toggled(posts[found].likes, users[caller].id)
                IN  /\ posts' = IF updated = 0 THEN posts
                                ELSE [posts EXCEPT ![updated].likes = likes]
                    /\ reply' = LikeReply(caller, found, likes,
                                          users[caller].id)
    /\ UNCHANGED <<users, matcher_vars, session_vars, reqs, institutions, jobs>>

LikeNext ==
    \/ \E caller \in DOMAIN users : CreatePost(caller)
    \/ \E caller \in DOMAIN users, post_id \in PostIds :
           LikePost(caller, post_id)

LikeSpec == LikeInit /\ [][LikeNext]_vars

(* ---------------------------------------------------------------------- *)
(* register                                                                *)
(* ---------------------------------------------------------------------- *)

\* lines 164-169: the roles validate_role lets through
ValidRoles == {"Student", "Alumni"}

\* the empty string, an institution_id that is a str and is falsy
Empty == ""

\* line 488: if user_data.institution_id
Truthy(institution_id) == institution_id \notin {None, Empty}

\* lines 489-491: an institution with the id and status Approved exists
ApprovedInstitution(institution_id) ==
    \E k \in 1..Len(institutions) :
        /\ institutions[k].id = institution_id
        /\ institutions[k].status = "Approved"

\* the institution_id values register is called with
RegisterInstitutionIds ==
    {None, Empty} \cup {InstIds[i] : i \in 1..MaxInstitutions}

\* lines 476-506
Register(email, role, institution_id) ==
    /\ IF CurrentUser(email) # 0
       THEN /\ reply' = InstReply(400, "register", 0, institution_id,
                                  "email_taken")
            /\ UNCHANGED users
       ELSE IF Truthy(institution_id) /\ ~ApprovedInstitution(institution_id)
       THEN /\ reply' = InstReply(400, "register", 0, institution_id,
                                  "unapproved")
            /\ UNCHANGED users
       ELSE /\ users' = Append(users, NewUser(email, role, "Pending",
                                               institution_id))
            /\ reply' = InstReply(200, "register", Len(users) + 1,
                                  institution_id, "created")
    /\ UNCHANGED <<matcher_vars, session_vars, reqs, institutions, posts, jobs>>

RegNext ==
    \/ InstNext
    \/ \E email \in Emails, role \in ValidRoles,
          institution_id \in RegisterInstitutionIds :
           Register(email, role, institution_id)

RegSpec == InstInit /\ [][RegNext]_vars

(* ---------------------------------------------------------------------- *)
(* update_profile                                                          *)
(* ---------------------------------------------------------------------- *)

\* most accounts created before profiles are updated
MaxProfileUsers == 2

\* the profiles sent: is_mentor and industry, each absent (None) or given
Profiles ==
    [is_mentor : {None, "true", "false"}, industry : {None, "tech"}]

\* line 558: the fields of the profile that are not None
UpdateData(profile_data) ==
    {k \in {"is_mentor", "industry"} : profile_data[k] # None}

\* line 560 with its role test dropped
MentorFlagForbiddenNever(update_data, user) == FALSE

\* line 560: is_mentor is in the update and the caller is not an Alumni
MentorFlagForbidden(update_data, user) ==
    /\ "is_mentor" \in update_data
    /\ user.role # "Alumni"

\* lines 563-566: $set of the given fields on a user document
SetProfile(user, profile_data) ==
    [user EXCEPT
        !.is_mentor = IF profile_data.is_mentor = None THEN @
                      ELSE profile_data.is_mentor = "true",
        !.industry = IF profile_data.industry = None THEN @
                     ELSE profile_data.industry]

\* what the response records of the profile sent
Carried(profile_data) ==
    IF profile_data.is_mentor # None THEN "is_mentor"
    ELSE IF profile_data.industry # None THEN "other" ELSE "empty"

\* lines 555-570; an update without fields is a $set of nothing, which the
\* store either rejects or applies as no change
UpdateProfile(token_email, profile_data) ==
    /\ LET caller == CurrentUser(token_email)
           update_data == UpdateData(profile_data)
       IN  IF caller = 0
           THEN /\ reply' = InstReply(401, "update_profile", 0, "none",
                                      Carried(profile_data))
                /\ UNCHANGED users
           ELSE IF MentorFlagForbidden(update_data, users[caller])
           THEN /\ reply' = InstReply(403, "update_profile", caller, "none",
                                      Carried(profile_data))
                /\ UNCHANGED users
           ELSE IF update_data = {}
           THEN /\ \E status \in {200, 500} :
                       reply' = InstReply(status, "update_profile", caller,
                                          "none", Carried(profile_data))
                /\ UNCHANGED users
           ELSE /\ users' = [users EXCEPT
                                ![caller] = SetProfile(@, profile_data)]
                /\ reply' = InstReply(200, "update_profile", caller, "none",
                                      Carried(profile_data))
    /\ UNCHANGED <<matcher_vars, session_vars, reqs, institutions, posts, jobs>>

\* room for one more account
ProfileRoom == Len(users) < MaxProfileUsers

ProfileNext ==
    \/ \E email \in Emails : ProfileRoom /\ CreatePlatformAdmin(email)
    \/ \E name \in Names, email \in Emails :
           ProfileRoom /\ RegisterInstitution(name, email)
    \/ \E email \in Emails, role \in ValidRoles,
          institution_id \in RegisterInstitutionIds :
           ProfileRoom /\ Register(email, role, institution_id)
    \/ \E email \in Emails, profile_data \in Profiles :
           UpdateProfile(email, profile_data)

ProfileSpec == InstInit /\ [][ProfileNext]_vars

(* ---------------------------------------------------------------------- *)
(* verify_user                                                             *)
(* ---------------------------------------------------------------------- *)

\* a user id as it arrives in the path: the id proper, and whether it is
\* wrapped in whitespace or markup that sanitize_input removes
UserPathIds == {PostId(n, padded) : n \in 1..NEmails + 1, padded \in BOOLEAN}

\* lines 307-310: the roles require_institution_admin lets through
IsInstitutionAdmin(user) ==
    user.role \in {"Institution_Admin", "Platform_Admin"}

\* line 947: an institution admin reaching outside their institution
OutsideOwnInstitution(admin, user) ==
    /\ admin.role = "Institution_Admin"
    /\ user.institution_id # admin.institution_id

\* lines 939-951
VerifyUser(token_email, user_id) ==
    /\ LET caller == CurrentUser(token_email)
           found == FirstMatch({i \in 1..Len(users) :
                                   users[i].id = sanitize_input(user_id).n})
           updated == FirstMatch({i \in 1..Len(users) :
                                     /\ ~user_id.padded
                                     /\ users[i].id = user_id.n})
       IN  IF caller = 0
           THEN /\ reply' = InstReply(401, "verify_user", 0, "none",
                                      "no_user")
                /\ UNCHANGED users
           ELSE IF ~IsInstitutionAdmin(users[caller])
           THEN /\ reply' = InstReply(403, "verify_user", caller, "none",
                                      "forbidden")
                /\ UNCHANGED users
           ELSE IF found = 0
           THEN /\ reply' = InstReply(404, "verify_user", caller, "none",
                                      "not_found")
                /\ UNCHANGED users
           ELSE IF OutsideOwnInstitution(users[caller], users[found])
           THEN /\ reply' = InstReply(403, "verify_user", caller, "none",
                                      "other_institution")
                /\ UNCHANGED users
           ELSE /\ users' = IF updated = 0 THEN users
                            ELSE [users EXCEPT ![updated].status = "Verified"]
                /\ reply' = [InstReply(200, "verify_user", caller, "none",
                                       "verified") EXCEPT !.target = found]
    /\ UNCHANGED <<matcher_vars, session_vars, reqs, institutions, posts, jobs>>

VerifyNext ==
    \/ InstNext
    \/ \E email \in Emails, user_id \in UserPathIds :
           VerifyUser(email, user_id)

VerifySpec == InstInit /\ [][VerifyNext]_vars

(* ---------------------------------------------------------------------- *)
(* Concurrent create_platform_admin calls                                  *)
(* ---------------------------------------------------------------------- *)

\* number of platform calls in flight at once
NCalls == 2

\* the platform admins among the users
PlatformAdmins(docs) ==
    {i \in 1..Len(docs) : docs[i].role = "Platform_Admin"}

\* the directories the setup calls start from: at most one platform admin
SetupDirectories ==
    {<< >>} \cup
    {d \in PlatformDirectories : Cardinality(PlatformAdmins(d)) <= 1}

\* a call that has not started
CallIdle == [pc |-> "start", status |-> 0, read |-> << >>, caller |-> 0]

AdminRaceInit ==
    /\ users \in SetupDirectories
    /\ MatcherIdle
    /\ reqs = << >>
    /\ institutions = << >>
    /\ posts = << >>
    /\ jobs = << >>
    /\ reply = NoReply
    /\ mentorship_requests = << >>
    /\ chats = << >>
    /\ calls = [c \in 1..NCalls |-> CallIdle]

\* lines 972-974: the lookup of an existing platform admin and its 400
AdminCheck(c) ==
    /\ calls[c].pc = "start"
    /\ IF PlatformAdmins(users) # {}
       THEN /\ calls' = [calls EXCEPT ![c].pc = "done", ![c].status = 400]
            /\ reply' = InstReply(400, "create_platform_admin", 0, "none",
                                  "exists")
       ELSE /\ calls' = [calls EXCEPT ![c].pc = "insert"]
            /\ UNCHANGED reply
    /\ UNCHANGED <<users, matcher_vars, reqs, institutions, posts, jobs,
                   mentorship_requests, chats>>

\* lines 976-1001: the insert, issued after the lookup has returned
AdminInsert(c, email) ==
    /\ calls[c].pc = "insert"
    /\ users' = Append(users,
                       [id |-> Len(users) + 1, email |-> email,
                        role |-> "Platform_Admin", status |-> "Verified",
                        institution_id |-> None, is_mentor |-> FALSE])
    /\ calls' = [calls EXCEPT ![c].pc = "done", ![c].status = 200]
    /\ reply' = InstReply(200, "create_platform_admin", 0, "none", "created")
    /\ UNCHANGED <<matcher_vars, reqs, institutions, posts, jobs,
                   mentorship_requests, chats>>

AdminRaceNext ==
    \/ \E c \in 1..NCalls : AdminCheck(c)
    \/ \E c \in 1..NCalls, email \in Emails : AdminInsert(c, email)

AdminRaceSpec == AdminRaceInit /\ [][AdminRaceNext]_vars

(* ---------------------------------------------------------------------- *)
(* Concurrent request_mentorship calls                                     *)
(* ---------------------------------------------------------------------- *)

\* longest directory the mentorship calls run against
MaxMentorshipUsers == 3

\* a user document of the mentorship calls
MentorshipDoc(k, i) ==
    [id |-> i, email |-> i, role |-> k.role, status |-> k.status,
     institution_id |-> "inst1", is_mentor |-> k.is_mentor]

\* students verified and pending, alumni who mentor and who do not
MentorshipKinds ==
    {[role |-> "Student", status |-> "Verified", is_mentor |-> FALSE],
     [role |-> "Student", status |-> "Pending", is_mentor |-> FALSE],
     [role |-> "Alumni", status |-> "Verified", is_mentor |-> TRUE],
     [role |-> "Alumni", status |-> "Verified", is_mentor |-> FALSE]}

MentorshipDirectories ==
    {[i \in 1..Len(ks) |-> MentorshipDoc(ks[i], i)] :
        ks \in SeqsUpTo(MentorshipKinds, MaxMentorshipUsers) \ {<< >>}}

\* line 845: the caller is not a verified student
NotVerifiedStudent(user) ==
    user.role # "Student" \/ user.status # "Verified"

\* line 848: a verified mentor with the id exists
MentorAvailable(mentor_id) ==
    \E i \in 1..Len(users) :
        /\ users[i].id = mentor_id
        /\ users[i].is_mentor
        /\ users[i].status = "Verified"

\* lines 855-859: the requests of the pair that are Pending or Accepted
ExistingRequests(student_id, mentor_id) ==
    {k \in 1..Len(mentorship_requests) :
        /\ mentorship_requests[k].student_id = student_id
        /\ mentorship_requests[k].mentor_id = mentor_id
        /\ mentorship_requests[k].status \in {"Pending", "Accepted"}}

RequestRaceInit ==
    /\ users \in MentorshipDirectories
    /\ MatcherIdle
    /\ reqs = << >>
    /\ institutions = << >>
    /\ posts = << >>
    /\ jobs = << >>
    /\ reply = NoReply
    /\ mentorship_requests = << >>
    /\ chats = << >>
    /\ calls = [c \in 1..NCalls |-> CallIdle]

\* a call ends with a status
Returns(c, status, caller) ==
    [calls EXCEPT ![c].pc = "done", ![c].status = status,
                  ![c].caller = caller]

\* lines 842-861: the checks and lookups before the insert
RequestCheck(c, caller, mentor_id) ==
    /\ calls[c].pc = "start"
    /\ caller \in DOMAIN users
    /\ LET user == users[caller]
       IN  IF NotVerifiedStudent(user)
           THEN calls' = Returns(c, 403, caller)
           ELSE IF ~MentorAvailable(mentor_id)
           THEN calls' = Returns(c, 404, caller)
           ELSE IF user.id = mentor_id
           THEN calls' = Returns(c, 400, caller)
           ELSE IF ExistingRequests(user.id, mentor_id) # {}
           THEN calls' = Returns(c, 400, caller)
           ELSE calls' = [calls EXCEPT ![c].pc = "insert",
                                       ![c].caller = caller,
                                       ![c].read = <<user.id, mentor_id>>]
    /\ UNCHANGED <<users, matcher_vars, reqs, institutions, posts, jobs,
                   reply, mentorship_requests, chats>>

\* lines 863-875: the insert, issued after the lookups have returned
RequestInsert(c) ==
    /\ calls[c].pc = "insert"
    /\ mentorship_requests' =
           Append(mentorship_requests,
                  [id |-> Len(mentorship_requests) + 1,
                   student_id |-> calls[c].read[1],
                   mentor_id |-> calls[c].read[2],
                   status |-> "Pending"])
    /\ calls' = Returns(c, 200, calls[c].caller)
    /\ UNCHANGED <<users, matcher_vars, reqs, institutions, posts, jobs,
                   reply, chats>>

RequestRaceNext ==
    \/ \E c \in 1..NCalls, caller \in DOMAIN users,
          mentor_id \in 1..MaxMentorshipUsers :
           RequestCheck(c, caller, mentor_id)
    \/ \E c \in 1..NCalls : RequestInsert(c)

RequestRaceSpec == RequestRaceInit /\ [][RequestRaceNext]_vars

(* ---------------------------------------------------------------------- *)
(* Concurrent accept_mentorship_request calls                              *)
(* ---------------------------------------------------------------------- *)

\* most mentorship requests pending when the accept calls arrive
MaxRequests == 2

\* the (student, mentor) pairs request_mentorship accepts in a directory
RequestablePairs(docs) ==
    {p \in (1..Len(docs)) \X (1..Len(docs)) :
        /\ docs[p[1]].role = "Student"
        /\ docs[p[1]].status = "Verified"
        /\ docs[p[2]].is_mentor
        /\ docs[p[2]].status = "Verified"}

\* the Pending requests request_mentorship has stored for a list of pairs
PendingRequests(pairs) ==
    [k \in 1..Len(pairs) |->
        [id |-> k, student_id |-> pairs[k][1], mentor_id |-> pairs[k][2],
         status |-> "Pending"]]

\* lists of distinct requestable pairs, as sequential requests leave them
PairLists(docs) ==
    {ps \in SeqsUpTo(RequestablePairs(docs), MaxRequests) :
        \A i, j \in 1..Len(ps) : ps[i] = ps[j] => i = j}

AcceptRaceInit ==
    /\ users \in MentorshipDirectories
    /\ MatcherIdle
    /\ reqs = << >>
    /\ institutions = << >>
    /\ posts = << >>
    /\ jobs = << >>
    /\ reply = NoReply
    /\ mentorship_requests \in {PendingRequests(ps) : ps \in PairLists(users)}
    /\ chats = << >>
    /\ calls = [c \in 1..NCalls |-> CallIdle]

\* lines 890-902: the lookup of the request and the three refusals
AcceptRead(c, caller, request_id) ==
    /\ calls[c].pc = "start"
    /\ caller \in DOMAIN users
    /\ LET k == FirstMatch({i \in 1..Len(mentorship_requests) :
                               mentorship_requests[i].id = request_id})
       IN  IF k = 0
           THEN calls' = Returns(c, 404, caller)
           ELSE IF mentorship_requests[k].mentor_id # users[caller].id
           THEN calls' = Returns(c, 403, caller)
           ELSE IF mentorship_requests[k].status # "Pending"
           THEN calls' = Returns(c, 400, caller)
           ELSE calls' = [calls EXCEPT
                             ![c].pc = "update", ![c].caller = caller,
                             ![c].read = <<mentorship_requests[k]>>]
    /\ UNCHANGED <<users, matcher_vars, reqs, institutions, posts, jobs,
                   reply, mentorship_requests, chats>>

\* lines 904-907: the status update, by the request's id
AcceptUpdate(c) ==
    /\ calls[c].pc = "update"
    /\ LET k == FirstMatch({i \in 1..Len(mentorship_requests) :
                               mentorship_requests[i].id
                                   = calls[c].read[1].id})
       IN  mentorship_requests' =
               [mentorship_requests EXCEPT ![k].status = "Accepted"]
    /\ calls' = [calls EXCEPT ![c].pc = "chat"]
    /\ UNCHANGED <<users, matcher_vars, reqs, institutions, posts, jobs,
                   reply, chats>>

\* lines 909-923: the chat insert and the response
AcceptChat(c) ==
    /\ calls[c].pc = "chat"
    /\ chats' = Append(chats,
                       [id |-> Len(chats) + 1,
                        participants |-> <<calls[c].read[1].student_id,
                                           calls[c].read[1].mentor_id>>,
                        sender_id |-> users[calls[c].caller].id])
    /\ calls' = Returns(c, 200, calls[c].caller)
    /\ UNCHANGED <<users, matcher_vars, reqs, institutions, posts, jobs,
                   reply, mentorship_requests>>

AcceptRaceNext ==
    \/ \E c \in 1..NCalls, caller \in DOMAIN users,
          request_id \in 1..MaxRequests :
           AcceptRead(c, caller, request_id)
    \/ \E c \in 1..NCalls : AcceptUpdate(c)
    \/ \E c \in 1..NCalls : AcceptChat(c)

AcceptRaceSpec == AcceptRaceInit /\ [][AcceptRaceNext]_vars

(* ---------------------------------------------------------------------- *)
(* Concurrent like_post calls                                              *)
(* ---------------------------------------------------------------------- *)

\* the users create_post accepts as authors
Authors(docs) ==
    {i \in 1..Len(docs) :
        docs[i].status = "Verified" /\ docs[i].institution_id # None}

\* the posts stored when the like calls arrive: one post of some author,
\* liked by nobody or by one user
StoredPosts(docs) ==
    {<<[id |-> PostId(1, FALSE), author_id |-> docs[a].id, likes |-> likes]>> :
        a \in Authors(docs),
        likes \in {<< >>} \cup {<<docs[i].id>> : i \in 1..Len(docs)}}

LikeRaceInit ==
    /\ users \in PlatformDirectories
    /\ MatcherIdle
    /\ reqs = << >>
    /\ institutions = << >>
    /\ posts \in StoredPosts(users)
    /\ jobs = << >>
    /\ reply = NoReply
    /\ mentorship_requests = << >>
    /\ chats = << >>
    /\ calls = [c \in 1..NCalls |-> CallIdle]

\* lines 625-632: the read of the post and the toggle on the local list
LikeRead(c, caller, post_id) ==
    /\ calls[c].pc = "start"
    /\ caller \in DOMAIN users
    /\ LET found == FirstMatch({i \in 1..Len(posts) :
                                   posts[i].id = sanitize_input(post_id)})
       IN  IF found = 0
           THEN calls' = Returns(c, 404, caller)
           ELSE calls' = [calls EXCEPT
                             ![c].pc = "write", ![c].caller = caller,
                             ![c].read = <<post_id, posts[found].likes>>]
    /\ UNCHANGED <<users, matcher_vars, reqs, institutions, posts, jobs,
                   reply, mentorship_requests, chats>>

\* lines 634-635: the write of the whole list and the response
LikeWrite(c) ==
    /\ calls[c].pc = "write"
    /\ LET likes == Toggled(calls[c].read[2], users[calls[c].caller].id)
           updated == FirstMatch({i \in 1..Len(posts) :
                                     posts[i].id = calls[c].read[1]})
       IN  /\ posts' = IF updated = 0 THEN posts
                       ELSE [posts EXCEPT ![updated].likes = likes]
           /\ reply' = LikeReply(calls[c].caller, updated, likes,
                                 users[calls[c].caller].id)
    /\ calls' = Returns(c, 200, calls[c].caller)
    /\ UNCHANGED <<users, matcher_vars, reqs, institutions, jobs,
                   mentorship_requests, chats>>

LikeRaceNext ==
    \/ \E c \in 1..NCalls, caller \in DOMAIN users, post_id \in PostIds :
           LikeRead(c, caller, post_id)
    \/ \E c \in 1..NCalls : LikeWrite(c)

LikeRaceSpec == LikeRaceInit /\ [][LikeRaceNext]_vars

(* ---------------------------------------------------------------------- *)
(* Properties of the mentor-match response                                 *)
(* ---------------------------------------------------------------------- *)

Done == pc = "done"
Succeeded == Done /\ result.status = 200

\* ids of the verified mentor alumni of the caller's institution, taken
\* from the directory itself
PoolIds ==
    {u.id : u \in {d \in Range(users) :
                     /\ d.role = "Alumni" /\ d.is_mentor /\ d.status = "Verified"
                     /\ d.institution_id = users[current_user].institution_id}}

DirectoryIds == {u.id : u \in Range(users)}

\* the caller passed the role and status checks
Admitted ==
    /\ current_user # 0
    /\ users[current_user].role = "Student"
    /\ users[current_user].status = "Verified"

\* C1: every id in the matches of a successful response is the id of a
\* verified mentor alumnus of the caller's institution (the candidate pool);
\* an id the ranking service names outside that pool never appears.
C1_MatchesInPool ==
    Succeeded => \A i \in 1..Len(result.matches) : result.matches[i] \in PoolIds

\* C2: no mentor id appears twice in the matches of a response.
C2_NoDuplicateMatches ==
    Succeeded =>
        \A i, j \in 1..Len(result.matches) :
            i # j => result.matches[i] # result.matches[j]

\* C3: a successful response holds at most 5 matches, on the AI path and on
\* the fallback path.
C3_AtMostFive == Succeeded => Len(result.matches) <= 5

\* C3 witness: a fallback response for a pool of more than 5 mentors, cut to 5
C3_Witness ==
    /\ Succeeded
    /\ result.fallback
    /\ Len(mentors) > 5
    /\ Len(result.matches) = 5

\* points an attribute may contribute when it is present on both sides
PresentPoints(a, b, points) == IF a # None /\ b # None THEN points ELSE 0

\* C4: an attribute that is None on the student or on the candidate never
\* contributes to the fallback score: a score never exceeds the points of
\* the attributes present on both sides.
C4_AbsentNeverScores ==
    \A i \in 1..Len(match_score) :
        match_score[i] <=
            PresentPoints(mentors[i].major, users[current_user].major, 100)
            + PresentPoints(mentors[i].industry,
                            users[current_user].industry, 50)
            + PresentPoints(mentors[i].location,
                            users[current_user].location, 25)

\* C5: a request that waits for the ranking service always completes, also
\* when the service never answers (a timeout cuts the call off).
C5_RequestCompletes == [](pc = "ai_wait" => <>(pc = "done"))

\* the AI path produced no result: the call raised, the cleaned text was
\* not valid JSON, the parsed value was not an array, or none of the first
\* five ids is the id of a user
AIPathFailed ==
    \/ ai_error \in {"call_error", "json_error"}
    \/ mentor_ids.kind \in {"object", "string"}
    \/ /\ mentor_ids.kind = "list"
       /\ \A i \in 1..Len(mentor_ids.ids) :
              i <= 5 => mentor_ids.ids[i] \notin DirectoryIds

Resolves(id) == id \in DirectoryIds

C8_EmptyOnlyForEmptyPool ==
    (Succeeded /\ result.matches = << >>) => PoolIds = {}

\* C8 witness: a non-empty pool, an answer whose array resolves nothing,
\* and a response that still holds a match
C8_Witness ==
    /\ Succeeded
    /\ PoolIds # {}
    /\ mentor_ids.kind = "list"
    /\ \A i \in 1..Len(mentor_ids.ids) : ~Resolves(mentor_ids.ids[i])
    /\ result.matches # << >>

\* C9: when the candidate pool is empty the response is matches=[] with a
\* message and ai_powered=false, and the request ends there: the ranking
\* service is not called and no fallback scoring is run.
C9_EmptyPoolIsTerminal ==
    (Admitted /\ PoolIds = {}) =>
        /\ Done
        /\ result.status = 200
        /\ result.matches = << >>
        /\ result.message = "no_mentors"
        /\ result.ai_powered = FALSE
        /\ ai_calls = 0
        /\ match_score = << >>

\* C9 witness: a verified student whose institution has no verified mentor
\* while the directory holds a mentor of another institution
C9_Witness ==
    /\ Admitted
    /\ PoolIds = {}
    /\ Done
    /\ \E u \in Range(users) : u.role = "Alumni" /\ u.is_mentor

\* position in the pool of the mentor with the given id
PoolPos(id) == CHOOSE p \in 1..Len(mentors) : mentors[p].id = id

\* pool position p ranks before pool position q: higher score, or the same
\* score and earlier in the pool
RanksBefore(p, q) ==
    \/ match_score[p] > match_score[q]
    \/ match_score[p] = match_score[q] /\ p < q

\* C10: on the fallback path the matches are the first five candidates of
\* the pool sorted by score descending, candidates of equal score keeping
\* their pool order.
C10_FallbackIsStableTopFive ==
    (Done /\ result.fallback) =>
        LET m == result.matches
            chosen == {PoolPos(m[i]) : i \in 1..Len(m)}
        IN  /\ Len(m) = (IF Len(mentors) < 5 THEN Len(mentors) ELSE 5)
            /\ \A i \in 1..Len(m) : \E p \in 1..Len(mentors) : mentors[p].id = m[i]
            /\ \A i, j \in 1..Len(m) :
                   i < j => RanksBefore(PoolPos(m[i]), PoolPos(m[j]))
            /\ \A p \in chosen, q \in (1..Len(mentors)) \ chosen :
                   RanksBefore(p, q)

\* C10 witness: a pool of more than five with two matches of equal score
\* and a match that overtook an earlier candidate
C10_Witness ==
    /\ Done
    /\ result.fallback
    /\ Len(mentors) > 5
    /\ \E i, j \in 1..Len(result.matches) :
           /\ i < j
           /\ match_score[PoolPos(result.matches[i])]
                  = match_score[PoolPos(result.matches[j])]
    /\ \E i, j \in 1..Len(result.matches) :
           i < j /\ PoolPos(result.matches[i]) > PoolPos(result.matches[j])

\* points of an attribute present on both sides and equal
EqualPresentPoints(a, b, points) ==
    IF a # None /\ b # None /\ a = b THEN points ELSE 0

OnePassStep ==
    /\ pc = "idle" => pc' \in {"ai_wait", "done"}
    /\ pc = "ai_wait" => pc' = "done" /\ ai_calls' = ai_calls
    /\ pc = "done" => pc' = "done" /\ ai_calls' = ai_calls
    /\ match_score # << >> => match_score' = match_score

\* the request of a verified student with a non-empty pool called the
\* service once; scores exist only when the attempt failed, never next to
\* an AI result
OnePassState ==
    /\ (Admitted /\ PoolIds # {}) => ai_calls = 1
    /\ pc = "ai_wait" => match_score = << >> /\ result = NoResult
    /\ match_score # << >> =>
           Done /\ AIPathFailed /\ (result.fallback \/ fallback_error)
    /\ result.ai_powered => Done /\ ~AIPathFailed /\ match_score = << >>

\* C12: a request with a non-empty pool is one pass AI_ATTEMPT -> success
\* -> DONE or AI_ATTEMPT -> failure -> FALLBACK_SCORE -> DONE: the ranking
\* service is called exactly once, fallback scoring runs only after the
\* attempt failed, and a request that returned an AI result never scores.
C12_OnePass == []OnePassState /\ [][OnePassStep]_vars

\* C12 witness: an AI result returned after one call, no score computed
C12_Witness ==
    /\ Done
    /\ result.ai_powered
    /\ ai_calls = 1
    /\ match_score = << >>
    /\ Len(mentors) > 0

\* C14: an error raised in the deterministic path (scoring, sorting or
\* building the fallback result) is not masked: the caller receives HTTP
\* 500, never a MatchResult and never a partial matches list.
C14_InternalFaultIs500 ==
    fallback_error =>
        /\ Done
        /\ result.status = 500
        /\ result.matches = << >>
        /\ result.fallback = FALSE
        /\ result.ai_powered = FALSE

\* C14 witness: every candidate was scored, then building the result raised
C14_Witness ==
    /\ fallback_error
    /\ Len(mentors) > 1
    /\ Len(match_score) = Len(mentors)
    /\ result.status = 500

C16_PoolIsInstitutionScoped ==
    pool_reads > 0 =>
        /\ {mentors[i].id : i \in 1..Len(mentors)} = PoolIds
        /\ Len(mentors) = Cardinality(PoolIds)
        /\ \A i \in 1..Len(mentors) :
               /\ mentors[i] \in Range(users)
               /\ mentors[i].institution_id
                      = users[current_user].institution_id
        /\ {prompt[i].id : i \in 1..Len(prompt)} \subseteq PoolIds
        /\ Len(match_score) <= Len(mentors)

\* C16 witness: a verified mentor of another institution is in the
\* directory while the pool is sent to the service and scored
C16_Witness ==
    /\ Done
    /\ \E u \in Range(users) :
           /\ u.role = "Alumni" /\ u.is_mentor /\ u.status = "Verified"
           /\ u.institution_id # users[current_user].institution_id
    /\ prompt # << >>
    /\ match_score # << >>

\* C17: a caller whose role is not Student, or whose status is not
\* Verified, receives 403 before the pool is read and before the ranking
\* service is called; only a verified Student receives a MatchResult.
C17_StudentsOnly ==
    /\ (current_user # 0 /\ ~Admitted) =>
           /\ Done
           /\ result.status = 403
           /\ result.matches = << >>
           /\ pool_reads = 0
           /\ ai_calls = 0
           /\ prompt = << >>
    /\ result.status = 200 => Admitted

\* C17 witness: a Student whose status is Pending was refused
C17_Witness ==
    /\ Done
    /\ current_user # 0
    /\ users[current_user].role = "Student"
    /\ users[current_user].status = "Pending"
    /\ result.status = 403
    /\ \E u \in Range(users) : u.role = "Alumni" /\ u.is_mentor

\* what a request of caller returns when it runs alone over docs and the
\* service treats it as it treated local
AloneResult(docs, local) ==
    LET begun == Started(docs, local.current_user)
    IN  IF begun.pc = "done" THEN begun.result
        ELSE IF local.ai_error = "call_error"
        THEN FellBack(docs, begun, begun.mentors, "call_error").result
        ELSE Answered(docs, begun, begun.mentors, local.response).result

\* C13: for any interleaving of mentor-match requests over an unchanged
\* directory, each request returns exactly the result it returns when run
\* alone with the same answer of the ranking service.
C13_NoCrossTalk ==
    \A r \in DOMAIN reqs :
        reqs[r].pc = "done" => reqs[r].result = AloneResult(users, reqs[r])

\* C13 witness: two different students whose requests overlapped were both
\* answered by the fallback, with different matches
C13_Witness ==
    \E r, q \in DOMAIN reqs :
        /\ reqs[r].pc = "done" /\ reqs[q].pc = "done"
        /\ reqs[r].current_user # reqs[q].current_user
        /\ reqs[r].overlapped
        /\ reqs[r].result.fallback /\ reqs[q].result.fallback
        /\ reqs[r].result.matches # reqs[q].result.matches

\* the user document with the given id
UserById(id) == CHOOSE u \in Range(users) : u.id = id

\* C18: a job posting is created only by a caller whose role is Alumni and
\* whose status is Verified: a Student caller gets 403, and every job in
\* the collection was posted by an Alumni user.
C18_JobsByVerifiedAlumniOnly ==
    /\ \A i \in 1..Len(jobs) : UserById(jobs[i].posted_by).role = "Alumni"
    /\ (reply.op = "create_job" /\ reply.status = 200) =>
           /\ users[reply.caller].role = "Alumni"
           /\ users[reply.caller].status = "Verified"
    /\ (reply.op = "create_job" /\ users[reply.caller].role = "Student") =>
           reply.status = 403

\* the institution documents other than the given one are the same after
\* the step as before it
OtherInstitutionsUnchanged(institution_id) ==
    /\ Len(institutions') = Len(institutions)
    /\ \A k \in 1..Len(institutions) :
           institutions[k].id # institution_id =>
               institutions'[k] = institutions[k]

\* the status of the institution with the given id, in a collection
StatusOf(docs, institution_id) ==
    docs[FirstMatch({k \in 1..Len(docs) :
                        docs[k].id = institution_id})].status

ApproveEffect ==
    (/\ reply'.op = "approve_institution"
     /\ reply'.status = 200
     /\ StatusOf(institutions, reply'.institution) = "Pending") =>
        LET id == reply'.institution
            k == FirstMatch({i \in 1..Len(institutions) :
                                institutions[i].id = id})
            admin == institutions[k].institution_admin_id
        IN  /\ StatusOf(institutions', id) = "Approved"
            /\ users[admin].role = "Institution_Admin"
            /\ users[admin].institution_id = id
            /\ users'[admin].status = "Verified"
            /\ OtherInstitutionsUnchanged(id)
            /\ Len(users') = Len(users)
            /\ \A i \in 1..Len(users) :
                   users[i].institution_id # id => users'[i] = users[i]

RejectEffect ==
    (reply'.op = "reject_institution" /\ reply'.status = 200) =>
        /\ StatusOf(institutions', reply'.institution) = "Rejected"
        /\ OtherInstitutionsUnchanged(reply'.institution)
        /\ users' = users

\* C19: a successful approve_institution of a Pending institution leaves it
\* Approved and its Institution_Admin Verified, and changes no other
\* institution and no user of another institution; a successful
\* reject_institution leaves the institution Rejected and changes no user.
C19_ApproveRejectFrame == [][ApproveEffect /\ RejectEffect]_vars

\* a Pending institution has just been approved while another institution
\* and its admin are still Pending
C19_Witness ==
    /\ reply.op = "approve_institution"
    /\ reply.status = 200
    /\ reply.detail = "Pending"
    /\ StatusOf(institutions, reply.institution) = "Approved"
    /\ \E k \in 1..Len(institutions) :
           /\ institutions[k].id # reply.institution
           /\ institutions[k].status = "Pending"
           /\ users[institutions[k].institution_admin_id].status = "Pending"
           /\ institutions[k].institution_admin_id
                  < CHOOSE a \in 1..Len(users) :
                        /\ users[a].institution_id = reply.institution
                        /\ users[a].role = "Institution_Admin"

\* no id occurs twice in a list
NoDuplicates(likes) ==
    \A i, j \in 1..Len(likes) : likes[i] = likes[j] => i = j

LikeToggles ==
    (reply'.op = "like_post" /\ reply'.status = 200) =>
        LET id == users[reply'.caller].id
            before == posts[reply'.target].likes
            after == posts'[reply'.target].likes
        IN  /\ id \notin Range(before) =>
                   /\ after = Append(before, id)
                   /\ reply'.liked
            /\ id \in Range(before) =>
                   /\ Range(after) = Range(before) \ {id}
                   /\ ~reply'.liked
            /\ reply'.likes_count = Len(after)
            /\ NoDuplicates(after)

\* C20: run without interleaving, like_post by a user not in the post's
\* likes adds the id once and returns liked=true, by a user already in
\* likes removes it and returns liked=false, the returned likes_count is
\* the length of the stored list, and likes never holds an id twice.
C20_LikeIsToggle == [][LikeToggles]_vars

RegisterChecksInstitution ==
    (reply'.op = "register" /\ reply'.institution # None) =>
        IF ApprovedInstitution(reply'.institution)
        THEN reply'.status = 200 => Len(users') = Len(users) + 1
        ELSE reply'.status = 400 /\ users' = users

\* C21: register with an institution_id succeeds only if an institution
\* with that id is Approved; for an unknown, Pending or Rejected
\* institution it returns 400 and leaves the users collection unchanged.
C21_RegisterNeedsApproved == [][RegisterChecksInstitution]_vars

MentorsAreAlumni ==
    \A i \in 1..Len(users) : users[i].is_mentor => users[i].role = "Alumni"

NonAlumniMentorFlagRefused ==
    (/\ reply'.op = "update_profile"
     /\ reply'.detail = "is_mentor"
     /\ reply'.caller # 0
     /\ users[reply'.caller].role # "Alumni") =>
        /\ reply'.status = 403
        /\ users' = users

\* C22: in every state reached through register, register_institution,
\* create_platform_admin and update_profile every user with is_mentor set
\* has role Alumni, and update_profile carrying is_mentor by a caller who
\* is not an Alumni returns 403 and leaves the user records unchanged.
C22_OnlyAlumniMentors ==
    []MentorsAreAlumni /\ [][NonAlumniMentorFlagRefused]_vars

\* an Alumni has become a mentor and a caller of another role has just
\* been refused the flag
C22_Witness ==
    /\ reply.op = "update_profile"
    /\ reply.status = 403
    /\ reply.detail = "is_mentor"
    /\ users[reply.caller].role # "Alumni"
    /\ \E i \in 1..Len(users) : users[i].is_mentor

AdminVerifiedByPlatformAdmin ==
    \A i \in 1..Len(users) :
        (/\ users[i].role = "Institution_Admin"
         /\ users[i].status = "Pending"
         /\ users'[i].status = "Verified") =>
            /\ reply'.caller # 0
            /\ users[reply'.caller].role = "Platform_Admin"

\* C26: an Institution_Admin account goes from Pending to Verified only in
\* a call made by a Platform_Admin; no call made by the Pending admin
\* (verify_user on a user of their own institution, themselves included)
\* does it.
C26_AdminVerifiedOnlyByPlatform == [][AdminVerifiedByPlatformAdmin]_vars

\* an institution with the id the call named exists before the call
NamedInstitutionExists ==
    \E k \in 1..Len(institutions) : institutions[k].id = reply'.institution

NotFoundOnlyWhenMissing ==
    (/\ reply'.op \in {"approve_institution", "reject_institution"}
     /\ reply'.status \notin {401, 403}) =>
        IF NamedInstitutionExists
        THEN reply'.status = 200
        ELSE reply'.status = 404

\* C29: approve_institution and reject_institution by a platform admin
\* return 404 exactly when no institution with the given id exists, and
\* succeed for an existing institution whatever its status, a repeated
\* approve of an Approved institution included.
C29_NotFoundIffMissing == [][NotFoundOnlyWhenMissing]_vars

\* C28: in every state reached by register, register_institution and
\* create_platform_admin no two user records have the same email, so the
\* email of a bearer credential identifies exactly one user.
C28_EmailsUnique ==
    \A i, j \in 1..Len(users) : users[i].email = users[j].email => i = j

\* C23: in every reachable state, concurrent create_platform_admin calls
\* included, at most one user has role Platform_Admin, and a call that
\* returned 400 was made when one existed.
C23_OnePlatformAdmin ==
    /\ Cardinality(PlatformAdmins(users)) <= 1
    /\ \A c \in DOMAIN calls :
           calls[c].status = 400 => PlatformAdmins(users) # {}

\* C24: in every reachable state, concurrent request_mentorship calls
\* included, each (student, mentor) pair has at most one mentorship request
\* whose status is Pending or Accepted.
C24_OneOpenRequestPerPair ==
    \A s, m \in 1..Len(users) : Cardinality(ExistingRequests(s, m)) <= 1

\* the chats created for a mentorship request
ChatsOf(request) ==
    {k \in 1..Len(chats) :
        chats[k].participants = <<request.student_id, request.mentor_id>>}

\* C25: under any interleaving of accept_mentorship_request calls a
\* request is accepted at most once: at most one chat, with participants
\* [student_id, mentor_id], is created for it, and at most one call on it
\* returns 200.
C25_AcceptedAtMostOnce ==
    \A r \in 1..Len(mentorship_requests) :
        /\ Cardinality(ChatsOf(mentorship_requests[r])) <= 1
        /\ Cardinality({c \in DOMAIN calls :
               /\ calls[c].status = 200
               /\ calls[c].read[1].id = mentorship_requests[r].id}) <= 1

\* the call has completed a like of the first post, addressed by its plain
\* id, by a user who had not liked it
LikedAfresh(c) ==
    /\ calls[c].pc = "done"
    /\ calls[c].status = 200
    /\ calls[c].read[1] = PostId(1, FALSE)
    /\ users[calls[c].caller].id \notin Range(calls[c].read[2])

\* C27: when two different users who have not liked a post call like_post
\* on it concurrently, both user ids are in the post's likes once both
\* calls have completed, whatever the interleaving of reads and writes.
C27_NoLostLike ==
    \A c, d \in DOMAIN calls :
        (/\ LikedAfresh(c)
         /\ LikedAfresh(d)
         /\ users[calls[c].caller].id # users[calls[d].caller].id) =>
            {users[calls[c].caller].id, users[calls[d].caller].id}
                \subseteq Range(posts[1].likes)

====
